---- MODULE Spec2Model ----
(***************************************************************************)
(* Model of the Kahoot agent's resolution pipeline: KahootAgent            *)
(* (kahoot_agent.py) driving OCRExtractor, AnswerSearcher and AutoClicker. *)
(* Texts are sequences of one-character strings, so that lower-casing,     *)
(* substring counting, whitespace splitting and the scorer's regular       *)
(* expressions are computed the way Python computes them.                  *)
(***************************************************************************)
EXTENDS Integers, Sequences, FiniteSets, TLC

(***************************************************************************)
(* Bounds of the model.                                                    *)
(***************************************************************************)
\* longest option sequence the recognizer is made to return
MaxOptions == 2
\* longest combined result list the searches are made to return
MaxResults == 1
\* new questions the polling loop is let to process
MaxQuestions == 3
\* options given to the button localizer on its own
MaxButtonOptions == 5
\* site-restricted passes of one gather (the code lists 5 sites)
MaxSites == 2
\* URLs one search yields
MaxUrls == 2
\* pieces a question given to clean_query on its own is made of
MaxTokens == 4
\* words of a raw text given to parse_answer_options on its own
MaxRawWords == 13
\* how far beyond the snippet limit, and short of it, a page's text goes
MaxOver == 3

(***************************************************************************)
(* Texts used as inputs.                                                   *)
(***************************************************************************)
T_Paris == <<"P", "a", "r", "i", "s">>
T_NewYork == <<"N", "e", "w", " ", "Y", "o", "r", "k">>
T_York == <<"Y", "o", "r", "k">>
T_quiz == <<"q", "u", "i", "z">>
T_answer_is_paris == <<"t", "h", "e", " ", "a", "n", "s", "w", "e", "r", " ", "i", "s", " ", "p", "a", "r", "i", "s">>
T_New_ideas == <<"N", "e", "w", " ", "i", "d", "e", "a", "s">>
T_old_new == <<"o", "l", "d", " ", "n", "e", "w", " ", "t", "h", "i", "n", "g", "s">>
T_york_is_correct == <<"y", "o", "r", "k", " ", "i", "s", " ", "c", "o", "r", "r", "e", "c", "t">>
T_nothing == <<"n", "o", "t", "h", "i", "n", "g", " ", "h", "e", "r", "e">>
T_empty == << >>
T_London == <<"L", "o", "n", "d", "o", "n">>
T_Berlin == <<"B", "e", "r", "l", "i", "n">>
T_Madrid == <<"M", "a", "d", "r", "i", "d">>
T_paris_york == <<"p", "a", "r", "i", "s", " ", "y", "o", "r", "k">>
T_1984 == <<"1", "9", "8", "4">>
T_new_x6_paris == <<"n", "e", "w", " ", "n", "e", "w", " ", "n", "e", "w", " ", "n", "e", "w", " ", "n", "e", "w", " ", "n", "e", "w", " ", "p", "a", "r", "i", "s">>

\* option texts a recognizer can return (parse_options never returns an
\* empty fragment)
OptionTexts == {T_Paris, T_NewYork, T_York}
\* option texts given to the scorer on its own, the empty text included
ScorerOptionTexts == OptionTexts \cup {T_empty}
\* search results: the 'title' and 'snippet' of one fetched page
Results ==
    { [title |-> T_quiz, snippet |-> T_answer_is_paris],
      [title |-> T_New_ideas, snippet |-> T_old_new],
      [title |-> T_quiz, snippet |-> T_york_is_correct],
      [title |-> T_quiz, snippet |-> T_nothing] }

\* the search results the searches of the polling loop come to: a page with
\* evidence for an option, and one without any
LoopResults ==
    { [title |-> T_quiz, snippet |-> T_york_is_correct],
      [title |-> T_quiz, snippet |-> T_nothing] }

\* the search results given to find_best_answer on its own: also one that
\* mentions two options alike, and one that repeats a word of an option
BestResults ==
    Results \cup { [title |-> T_quiz, snippet |-> T_paris_york],
                   [title |-> T_quiz, snippet |-> T_new_x6_paris] }
\* the options of the sample test
Capitals == <<T_London, T_Berlin, T_Paris, T_Madrid>>

SeqsUpTo(S, n) == UNION { [1..k -> S] : k \in 0..n }

(***************************************************************************)
(* Python string primitives.                                               *)
(***************************************************************************)
LowerTable ==
    ("A" :> "a") @@ ("B" :> "b") @@ ("C" :> "c") @@ ("D" :> "d") @@
    ("E" :> "e") @@ ("F" :> "f") @@ ("G" :> "g") @@ ("H" :> "h") @@
    ("I" :> "i") @@ ("J" :> "j") @@ ("K" :> "k") @@ ("L" :> "l") @@
    ("M" :> "m") @@ ("N" :> "n") @@ ("O" :> "o") @@ ("P" :> "p") @@
    ("Q" :> "q") @@ ("R" :> "r") @@ ("S" :> "s") @@ ("T" :> "t") @@
    ("U" :> "u") @@ ("V" :> "v") @@ ("W" :> "w") @@ ("X" :> "x") @@
    ("Y" :> "y") @@ ("Z" :> "z")

\* str.lower()
Lower(s) ==
    [i \in 1..Len(s) |-> IF s[i] \in DOMAIN LowerTable THEN LowerTable[s[i]] ELSE s[i]]

\* sub occurs in s at position i
MatchAt(s, sub, i) ==
    /\ i >= 1
    /\ i + Len(sub) - 1 <= Len(s)
    /\ \A k \in 1..Len(sub) : s[i + k - 1] = sub[k]

\* sub in s
Contains(s, sub) == \E i \in 1..(Len(s) + 1) : MatchAt(s, sub, i)

\* the k-th smallest member of a set of places
Nth(places, k) == CHOOSE x \in places : Cardinality({ y \in places : y <= x }) = k

RECURSIVE CountFrom(_, _, _)
\* the occurrences counted from place i on: the leftmost one at or after i,
\* then those that start after its end
CountFrom(s, sub, i) ==
    LET hits == { j \in i..(Len(s) - Len(sub) + 1) : MatchAt(s, sub, j) }
    IN  IF hits = {} THEN 0
        ELSE 1 + CountFrom(s, sub, Nth(hits, 1) + Len(sub))

\* str.count(sub): non-overlapping occurrences, scanned left to right
\* (the empty sub matches at every position and at the end)
Count(s, sub) == IF Len(sub) = 0 THEN Len(s) + 1 ELSE CountFrom(s, sub, 1)

IsSpace(c) == c \in {" ", "\n", "\t"}

\* the places of s where a word starts, and where one ends
WordStarts(s) == { i \in 1..Len(s) : ~IsSpace(s[i]) /\ (i = 1 \/ IsSpace(s[i - 1])) }
WordEnds(s) == { i \in 1..Len(s) : ~IsSpace(s[i]) /\ (i = Len(s) \/ IsSpace(s[i + 1])) }

\* str.split(): the whitespace-separated words
Split(s) ==
    LET starts == WordStarts(s)
        ends == WordEnds(s)
    IN  IF starts = {} THEN << >>
        ELSE [k \in 1..Cardinality(starts) |-> SubSeq(s, Nth(starts, k), Nth(ends, k))]

\* the places where a line of s starts: its maximal runs without a line break
\* ('.' of a regular expression stays inside one of them)
LineStarts(s) == {1} \cup { i + 1 : i \in { j \in 1..Len(s) : s[j] = "\n" } }

\* the last place of the line of s that starts at start
LineEnd(s, start) ==
    LET breaks == { j \in start..Len(s) : s[j] = "\n" }
    IN  IF breaks = {} THEN Len(s)
        ELSE (CHOOSE j \in breaks : \A k \in breaks : j <= k) - 1

Range(f) == { f[i] : i \in DOMAIN f }

Min(a, b) == IF a <= b THEN a ELSE b

RECURSIVE SumSeq(_)
SumSeq(s) == IF s = << >> THEN 0 ELSE Head(s) + SumSeq(Tail(s))

\* len(re.findall(a + ".*" + b, s)) for literal a, b without a line break: the
\* greedy '.*' runs to the last b of the line, so a line gives one match when
\* some a in it is followed by a b, and none otherwise
CountDotStar(s, a, b) ==
    LET hit(start) ==
            LET end == LineEnd(s, start)
            IN  \E p \in start..end :
                   /\ p + Len(a) - 1 <= end
                   /\ MatchAt(s, a, p)
                   /\ \E q \in (p + Len(a))..end :
                         /\ q + Len(b) - 1 <= end
                         /\ MatchAt(s, b, q)
    IN  Cardinality({ start \in LineStarts(s) : hit(start) })

(***************************************************************************)
(* clean_query.                                                            *)
(***************************************************************************)
\* str.strip()
Strip(s) ==
    LET inked == { i \in 1..Len(s) : ~IsSpace(s[i]) }
    IN  IF inked = {} THEN << >>
        ELSE SubSeq(s, CHOOSE i \in inked : \A j \in inked : i <= j,
                       CHOOSE i \in inked : \A j \in inked : i >= j)

\* re.sub(r'\s+', ' ', s), from position i on: every character that is not
\* white space is kept, and the first one of every run of white space, as " "
CollapseFrom(s, i) ==
    LET kept == { j \in i..Len(s) : ~IsSpace(s[j]) \/ j = 1 \/ ~IsSpace(s[j - 1]) }
    IN  IF kept = {} THEN << >>
        ELSE [k \in 1..Cardinality(kept) |->
                 LET j == Nth(kept, k) IN IF IsSpace(s[j]) THEN " " ELSE s[j]]

\* re.sub(r'[?!.]+$', '', s)
StripTrailingPunctuation(s) ==
    LET other == { i \in 1..Len(s) : s[i] \notin {"?", "!", "."} }
    IN  IF other = {} THEN << >>
        ELSE SubSeq(s, 1, CHOOSE i \in other : \A j \in other : i >= j)

RECURSIVE Join(_)
\* ' '.join(words)
Join(words) ==
    IF words = << >> THEN << >>
    ELSE IF Len(words) = 1 THEN words[1]
    ELSE words[1] \o <<" ">> \o Join(Tail(words))

filler_words ==
    { <<"w", "h", "i", "c", "h">>, <<"w", "h", "a", "t">>, <<"w", "h", "o">>,
      <<"w", "h", "e", "r", "e">>, <<"w", "h", "e", "n">>, <<"h", "o", "w">>,
      <<"t", "h", "e", " ", "f", "o", "l", "l", "o", "w", "i", "n", "g">> }

NotFiller(word) == word \notin filler_words

\* clean_query
clean_query(text) ==
    IF text = << >> THEN << >>
    ELSE LET cleaned == StripTrailingPunctuation(CollapseFrom(Strip(text), 1))
             words == Split(Lower(cleaned))
         IN  Join(SelectSeq(words, NotFiller))

(***************************************************************************)
(* OCRExtractor.parse_answer_options.                                      *)
(***************************************************************************)
\* raw_text.split('\n'), from position i on with cur the line begun: one
\* line more than there are line breaks
SplitLines(s, i, cur) ==
    LET breaks == { j \in i..Len(s) : s[j] = "\n" }
        n == Cardinality(breaks)
        first(k) == IF k = 1 THEN i ELSE Nth(breaks, k - 1) + 1
        last(k) == IF k = n + 1 THEN Len(s) ELSE Nth(breaks, k) - 1
    IN  [k \in 1..(n + 1) |->
             (IF k = 1 THEN cur ELSE << >>) \o SubSeq(s, first(k), last(k))]

RECURSIVE LStrip(_)
\* the \s* at the end of a prefix pattern
LStrip(s) == IF s # << >> /\ IsSpace(s[1]) THEN LStrip(Tail(s)) ELSE s

\* re.sub(r'^[A-D]\)?\s*', '', s) with first = A..D and mark = ")", and
\* re.sub(r'^[1-4]\.?\s*', '', s) with first = 1..4 and mark = "."
StripPrefix(s, first, mark) ==
    IF s # << >> /\ s[1] \in first
    THEN LET rest == Tail(s)
         IN  LStrip(IF rest # << >> /\ rest[1] = mark THEN Tail(rest) ELSE rest)
    ELSE s

\* what a line becomes before it is taken as an answer
CleanLine(line) ==
    StripPrefix(StripPrefix(Strip(line), {"A", "B", "C", "D"}, ")"),
                {"1", "2", "3", "4"}, ".")

\* the loop over the lines: lines of more than 2 characters, cleaned, unless
\* nothing is left of them
LineAnswers(lines) ==
    LET taken == SelectSeq(lines, LAMBDA line :
                     Len(Strip(line)) > 2 /\ CleanLine(line) # << >>)
    IN  IF taken = << >> THEN << >>
        ELSE [k \in 1..Len(taken) |-> CleanLine(taken[k])]

\* words[i:i+3]
Slice3(words, i) == SubSeq(words, i + 1, Min(i + 3, Len(words)))

\* [' '.join(words[i:i+3]) for i in range(0, min(len(words), 12), 3)]
WordGroups(words) ==
    [k \in 1..((Min(Len(words), 12) + 2) \div 3) |-> Join(Slice3(words, 3 * (k - 1)))]

FirstFour(answers) == SubSeq(answers, 1, Min(Len(answers), 4))

\* parse_answer_options without the final cut
parse_answer_options_NoCut(raw) ==
    IF raw = << >> THEN << >>
    ELSE LET answers == LineAnswers(SplitLines(raw, 1, << >>))
             words == Split(raw)
         IN  IF Len(answers) < 2 /\ Len(words) >= 4
             THEN WordGroups(words)
             ELSE answers

\* parse_answer_options
parse_answer_options(raw) ==
    IF raw = << >> THEN << >>
    ELSE LET answers == LineAnswers(SplitLines(raw, 1, << >>))
             words == Split(raw)
         IN  FirstFour(IF Len(answers) < 2 /\ Len(words) >= 4
                       THEN WordGroups(words)
                       ELSE answers)

(***************************************************************************)
(* Scores are rationals <<numerator, denominator>> in lowest terms.        *)
(***************************************************************************)
RECURSIVE Gcd(_, _)
Gcd(a, b) == IF b = 0 THEN a ELSE Gcd(b, a % b)

Frac(n, d) == LET g == Gcd(n, d) IN <<n \div g, d \div g>>
Zero == <<0, 1>>
One == <<1, 1>>
FracGE(x, y) == x[1] * y[2] >= y[1] * x[2]
FracGT(x, y) == x[1] * y[2] > y[1] * x[2]
FracAdd(x, y) == Frac(x[1] * y[2] + y[1] * x[2], x[2] * y[2])
FracMul(k, x) == Frac(k * x[1], x[2])
FracDiv(x, y) == Frac(x[1] * y[2], x[2] * y[1])
Half == <<1, 2>>

(***************************************************************************)
(* AnswerSearcher.extract_potential_answers and find_best_answer.          *)
(***************************************************************************)
P_answer_is == <<"a", "n", "s", "w", "e", "r", " ", "i", "s", " ">>
P_correct_answer == <<"c", "o", "r", "r", "e", "c", "t", " ", "a", "n", "s", "w", "e", "r">>
P_is_correct == <<"i", "s", " ", "c", "o", "r", "r", "e", "c", "t">>
P_solution == <<"s", "o", "l", "u", "t", "i", "o", "n">>

RECURSIVE AllText(_)
\* all_text: " title snippet" of every result, concatenated and lower-cased
AllText(results) ==
    IF results = << >> THEN << >>
    ELSE Lower(<<" ">> \o Head(results).title \o <<" ">> \o Head(results).snippet)
         \o AllText(Tail(results))

\* direct mentions counted once
DirectScore_Single(option_lower, all_text) == FracMul(Count(all_text, option_lower), One)

\* direct mentions: all_text.count(option_lower) * 2
DirectScore(option_lower, all_text) == FracMul(2 * Count(all_text, option_lower), One)

\* word-level matching: every word longer than 2 characters adds count * 0.5
WordScore(option_lower, all_text) ==
    LET words == Split(option_lower)
    IN  FracMul(SumSeq([i \in 1..Len(words) |->
                    IF Len(words[i]) > 2 THEN Count(all_text, words[i]) ELSE 0]), Half)

\* the first pattern written without the option: any "answer is" counts
PatternScore_AnyAnswer(option_lower, all_text) ==
    FracMul(5 * ( Count(all_text, P_answer_is)
                + CountDotStar(all_text, P_correct_answer, option_lower)
                + CountDotStar(all_text, option_lower, P_is_correct)
                + CountDotStar(all_text, P_solution, option_lower) ), One)

\* context patterns: every match of one of the four patterns adds 5
PatternScore(option_lower, all_text) ==
    FracMul(5 * ( Count(all_text, P_answer_is \o option_lower)
                + CountDotStar(all_text, P_correct_answer, option_lower)
                + CountDotStar(all_text, option_lower, P_is_correct)
                + CountDotStar(all_text, P_solution, option_lower) ), One)

\* what one pass of the scoring loop adds to answer_scores[option]
OptionScore(option, all_text) ==
    LET option_lower == Lower(option)
    IN  FracAdd(DirectScore(option_lower, all_text),
                FracAdd(WordScore(option_lower, all_text),
                        PatternScore(option_lower, all_text)))

RECURSIVE ScoreLoop(_, _, _, _)
\* for option in options: ... answer_scores[option] += ...
ScoreLoop(i, options, all_text, answer_scores) ==
    IF i > Len(options) THEN answer_scores
    ELSE LET option == options[i]
         IN  IF option = << >>
             THEN ScoreLoop(i + 1, options, all_text, answer_scores)
             ELSE ScoreLoop(i + 1, options, all_text,
                      [answer_scores EXCEPT ![option] =
                          FracAdd(@, OptionScore(option, all_text))])

\* max(answer_scores.values())
MaxScore(answer_scores) ==
    CHOOSE m \in Range(answer_scores) : \A v \in Range(answer_scores) : FracGE(m, v)

\* the values clamped to 1.0 instead of divided by the largest
Normalize_Clamp(answer_scores) ==
    [k \in DOMAIN answer_scores |->
        IF FracGT(answer_scores[k], One) THEN One ELSE answer_scores[k]]

\* every value divided by the sum of the values instead of the largest
Normalize_BySum(answer_scores) ==
    IF DOMAIN answer_scores = {} THEN answer_scores
    ELSE LET keys == DOMAIN answer_scores
             RECURSIVE Sum(_)
             Sum(S) == IF S = {} THEN Zero
                       ELSE LET k == CHOOSE x \in S : TRUE
                            IN  FracAdd(answer_scores[k], Sum(S \ {k}))
             total == Sum(keys)
         IN  IF FracGT(total, Zero)
             THEN [k \in keys |-> FracDiv(answer_scores[k], total)]
             ELSE answer_scores

\* if max_score > 0: every value is divided by max_score
Normalize(answer_scores) ==
    IF DOMAIN answer_scores = {} THEN answer_scores
    ELSE LET max_score == MaxScore(answer_scores)
         IN  IF FracGT(max_score, Zero)
             THEN [k \in DOMAIN answer_scores |-> FracDiv(answer_scores[k], max_score)]
             ELSE answer_scores

\* answer_scores when the scoring loop is over, before the normalization:
\* the dict maps each distinct option text to its score
RawScores(results, options) ==
    LET answer_scores == [k \in Range(options) |-> Zero]
    IN  IF results = << >> \/ options = << >>
        THEN answer_scores
        ELSE ScoreLoop(1, options, AllText(results), answer_scores)

\* what extract_potential_answers returns, given the scores of the loop
Returned(raw, results, options) ==
    IF results = << >> \/ options = << >> THEN raw ELSE Normalize(raw)

\* the body of extract_potential_answers
PotentialAnswers(results, options) ==
    Returned(RawScores(results, options), results, options)

\* the scores tabulated over the inputs the model draws, before and after the
\* normalization, so that each input is scored once
ScoreTable ==
    LET table == [o \in SeqsUpTo(ScorerOptionTexts, MaxOptions),
                  r \in SeqsUpTo(Results, MaxResults) |->
                     LET raw == RawScores(r, o)
                     IN  [raw |-> raw, returned |-> Returned(raw, r, o)]]
    IN  table @@ table

\* whether the table holds the scores of these inputs
Tabulated(results, options) ==
    /\ Len(options) <= MaxOptions
    /\ Len(results) <= MaxResults
    /\ \A i \in DOMAIN options : options[i] \in ScorerOptionTexts
    /\ \A i \in DOMAIN results : results[i] \in Results

extract_potential_answers(results, options) ==
    IF Tabulated(results, options)
    THEN ScoreTable[options, results].returned
    ELSE PotentialAnswers(results, options)

\* the scores extract_potential_answers had before it normalized them
raw_scores(results, options) ==
    IF Tabulated(results, options)
    THEN ScoreTable[options, results].raw
    ELSE RawScores(results, options)

RECURSIVE KeyOrder(_, _)
\* the dict's iteration order: the option texts in order of first occurrence
KeyOrder(options, seen) ==
    IF options = << >> THEN << >>
    ELSE IF Head(options) \in seen
         THEN KeyOrder(Tail(options), seen)
         ELSE <<Head(options)>>
              \o KeyOrder(Tail(options), seen \cup {Head(options)})

\* the last item of largest value
BestItem_LastMax(score_map, options) ==
    LET keys == KeyOrder(options, {})
        i == CHOOSE j \in 1..Len(keys) :
                /\ \A k \in 1..Len(keys) : FracGE(score_map[keys[j]], score_map[keys[k]])
                /\ \A k \in (j + 1)..Len(keys) : FracGT(score_map[keys[j]], score_map[keys[k]])
    IN  <<keys[i], score_map[keys[i]]>>

\* max(scores.items(), key=lambda x: x[1]): the first item of largest value
BestItem(score_map, options) ==
    LET keys == KeyOrder(options, {})
        i == CHOOSE j \in 1..Len(keys) :
                /\ \A k \in 1..Len(keys) : FracGE(score_map[keys[j]], score_map[keys[k]])
                /\ \A k \in 1..(j - 1) : FracGT(score_map[keys[j]], score_map[keys[k]])
    IN  <<keys[i], score_map[keys[i]]>>

LowConfidence == <<1, 10>>

NoScores == << >>

\* find_best_answer giving no answer when no option has any evidence
find_best_answer_NoEvidenceFails(text, options, outcome) ==
    IF text = << >> \/ options = << >>
    THEN [answer |-> T_empty, confidence |-> Zero, scores |-> NoScores]
    ELSE IF outcome.fault
    THEN [answer |-> options[1], confidence |-> LowConfidence, scores |-> NoScores]
    ELSE LET score_map == extract_potential_answers(outcome.results, options)
             best == BestItem(score_map, options)
         IN  IF best[2] # Zero
             THEN [answer |-> best[1], confidence |-> best[2], scores |-> score_map]
             ELSE [answer |-> T_empty, confidence |-> Zero, scores |-> score_map]

\* find_best_answer: outcome.fault is an exception raised inside the try block,
\* outcome.results the combined general and educational results otherwise.
\* The answer and the confidence are what it returns, scores is its local.
find_best_answer(text, options, outcome) ==
    IF text = << >> \/ options = << >>
    THEN [answer |-> T_empty, confidence |-> Zero, scores |-> NoScores]
    ELSE IF outcome.fault
    THEN [answer |-> options[1], confidence |-> LowConfidence, scores |-> NoScores]
    ELSE LET score_map == extract_potential_answers(outcome.results, options)
             best == BestItem(score_map, options)
         IN  IF DOMAIN score_map # {}
             THEN [answer |-> best[1], confidence |-> best[2], scores |-> score_map]
             ELSE [answer |-> options[1], confidence |-> LowConfidence,
                   scores |-> score_map]

(***************************************************************************)
(* AutoClicker.                                                            *)
(***************************************************************************)
\* an image is known by its shape; a capture that returned None has none = TRUE
NoImage == [none |-> TRUE, width |-> 0, height |-> 0]
\* the primary monitor, and the answers area cut from it (its bottom 60%)
Monitor == [width |-> 800, height |-> 1000]
Images == { [none |-> FALSE, width |-> Monitor.width,
             height |-> Monitor.height - (Monitor.height * 4) \div 10] }

\* the quadrants listed column by column
find_answer_buttons_ColumnMajor(answers_image, options) ==
    IF answers_image.none \/ options = << >> THEN << >>
    ELSE LET height == answers_image.height
             width == answers_image.width
             quadrants == << <<width \div 4, height \div 4>>,
                             <<width \div 4, (3 * height) \div 4>>,
                             <<(3 * width) \div 4, height \div 4>>,
                             <<(3 * width) \div 4, (3 * height) \div 4>> >>
             num_answers == Min(Len(options), 4)
         IN  SubSeq(quadrants, 1, num_answers)

\* the top row of the quadrants only
find_answer_buttons_TopRow(answers_image, options) ==
    IF answers_image.none \/ options = << >> THEN << >>
    ELSE LET height == answers_image.height
             width == answers_image.width
             quadrants == << <<width \div 4, height \div 4>>,
                             <<(3 * width) \div 4, height \div 4>> >>
             num_answers == Min(Len(options), 2)
         IN  SubSeq(quadrants, 1, num_answers)

\* the centers of the quadrants, cut to min(len(options), 4)
find_answer_buttons(answers_image, options) ==
    IF answers_image.none \/ options = << >> THEN << >>
    ELSE LET height == answers_image.height
             width == answers_image.width
             quadrants == << <<width \div 4, height \div 4>>,
                             <<(3 * width) \div 4, height \div 4>>,
                             <<width \div 4, (3 * height) \div 4>>,
                             <<(3 * width) \div 4, (3 * height) \div 4>> >>
             num_answers == Min(Len(options), 4)
         IN  SubSeq(quadrants, 1, num_answers)

\* what find_color_coded_answers can report: the centroids of the color
\* regions it finds, none included
ColorOutcomes == { << >>, << <<400, 300>> >> }

RECURSIVE ExactLoop(_, _, _)
\* the first i with best_answer.lower() in option.lower(), else -1 (0-based)
ExactLoop(i, best, options) ==
    IF i > Len(options) THEN -1
    ELSE IF /\ options[i] # << >>
            /\ Contains(Lower(options[i]), Lower(best))
         THEN i - 1
         ELSE ExactLoop(i + 1, best, options)

WordSet(s) == Range(Split(Lower(s)))

RECURSIVE FuzzyLoop_LastTie(_, _, _, _, _)
\* the fuzzy loop replacing its choice also by an equal overlap
FuzzyLoop_LastTie(i, best_words, options, best_match_score, answer_index) ==
    IF i > Len(options) THEN answer_index
    ELSE LET overlap == Cardinality(best_words \cap WordSet(options[i]))
         IN  IF options[i] # << >> /\ overlap >= best_match_score /\ overlap > 0
             THEN FuzzyLoop_LastTie(i + 1, best_words, options, overlap, i - 1)
             ELSE FuzzyLoop_LastTie(i + 1, best_words, options, best_match_score,
                                    answer_index)

RECURSIVE FuzzyLoop(_, _, _, _, _)
\* the option of largest word overlap, replaced only by a strictly larger one
FuzzyLoop(i, best_words, options, best_match_score, answer_index) ==
    IF i > Len(options) THEN answer_index
    ELSE LET overlap == Cardinality(best_words \cap WordSet(options[i]))
         IN  IF options[i] # << >> /\ overlap > best_match_score
             THEN FuzzyLoop(i + 1, best_words, options, overlap, i - 1)
             ELSE FuzzyLoop(i + 1, best_words, options, best_match_score,
                            answer_index)

\* the answer_index click_best_answer hands to click_answer, -1 when none
AnswerIndex(best, options) ==
    LET exact == ExactLoop(1, best, options)
    IN  IF exact # -1 THEN exact
        ELSE FuzzyLoop(1, WordSet(best), options, 0, -1)

\* click_answer refuses an index without a button position
CanClick(answer_index, positions) ==
    ~(positions = << >> \/ answer_index >= Len(positions))

\* the absolute screen position click_answer clicks
ClickPosition(answer_index, positions, offset) ==
    <<positions[answer_index + 1][1] + offset[1],
      positions[answer_index + 1][2] + offset[2]>>

\* click_best_answer: the position to click, << >> when the action is refused
click_best_answer(best, options, positions, offset) ==
    IF best = << >> \/ options = << >> THEN << >>
    ELSE LET answer_index == AnswerIndex(best, options)
         IN  IF answer_index >= 0 /\ CanClick(answer_index, positions)
             THEN ClickPosition(answer_index, positions, offset)
             ELSE << >>

(***************************************************************************)
(* KahootAgent: the state of the orchestrator and of the cycle in flight.  *)
(***************************************************************************)
VARIABLES
    auto_click,        \* self.auto_click
    min_confidence,    \* self.min_confidence
    scan_interval,     \* self.scan_interval
    running,           \* self.running
    last_question,     \* self.last_question
    question_count,    \* self.question_count
    pc,                \* where run_continuous / process_question stands
    question,          \* process_question's question (empty for None)
    answer_options,    \* process_question's answer_options
    answers_img,       \* capture_and_analyze's answers_img
    button_positions,  \* process_question's button_positions
    search_results,    \* find_best_answer's all_results
    scores,            \* find_best_answer's scores
    best_answer,       \* process_question's best_answer
    confidence,        \* process_question's confidence
    stages,            \* the collaborators called by the cycle, in call order
    click,             \* the position pyautogui.click was given in the cycle
    result,            \* what the cycle's process_question returned
    faulted,           \* whether it returned from its except clause
    exit_reason,       \* which way run_continuous left its loop
    now,               \* time.time(), in ticks of half a second
    last_request_time, \* AnswerSearcher.last_request_time
    last_call_time,    \* when the latest outbound network call started
    pass,              \* the search_google call of the gather: 0 the general one
    urls_left,         \* the URLs the for loop of search_google has yet to take
    pass_results,      \* search_google's results
    fetched,           \* the URLs whose page was fetched and parsed
    failures,          \* the URLs <<p, k>> and the searches <<p, 0>> that raised
    searched,          \* the passes whose search was called
    page_text,         \* soup.get_text() of the page being fetched
    clicks,            \* how many times pyautogui.click was given a position
    raw_text           \* the text the OCR backend read from the answers image

vars == <<auto_click, min_confidence, scan_interval, running, last_question,
          question_count, pc, question, answer_options, answers_img,
          button_positions, search_results, scores, best_answer, confidence,
          stages, click, result, faulted, exit_reason, now, last_request_time,
          last_call_time, pass, urls_left, pass_results, fetched, failures,
          searched, page_text, clicks, raw_text>>

recognizer == <<raw_text>>
pointer == <<clicks>>

\* nothing read yet
NewRecognizer == raw_text = T_empty

\* the pointer has not been clicked
NewPointer == clicks = 0

searcher == <<now, last_request_time, last_call_time, pass, urls_left,
              pass_results, fetched, failures, searched, page_text>>

\* self.min_request_interval = 1.0, in ticks
min_request_interval == 2
NoCall == -1

\* AnswerSearcher.__init__, at a time long after the epoch
NewSearcher ==
    /\ now = 2 * min_request_interval
    /\ last_request_time = 0
    /\ last_call_time = NoCall
    /\ pass = 0
    /\ urls_left = << >>
    /\ pass_results = << >>
    /\ fetched = {}
    /\ failures = {}
    /\ searched = {}
    /\ page_text = T_empty

config == <<auto_click, min_confidence, scan_interval>>
cycle == <<question, answer_options, answers_img, button_positions,
           search_results, scores, best_answer, confidence, stages, click>>

T_Q1 == <<"Q", "1", "?">>
T_Q2 == <<"Q", "2", "?">>
\* the questions extract_question can return
Questions == {T_Q1, T_Q2}

Default_min_confidence == <<3, 10>>
\* the values --confidence is given
MinConfidences == {Zero, LowConfidence, Default_min_confidence, One}
\* the values --interval is given (seconds)
ScanIntervals == {2}

NoClick == << >>

\* a cycle that has not started: no locals, nothing called, nothing clicked
FreshCycle ==
    /\ question = T_empty
    /\ answer_options = << >>
    /\ answers_img = NoImage
    /\ button_positions = << >>
    /\ search_results = << >>
    /\ scores = NoScores
    /\ best_answer = T_empty
    /\ confidence = Zero
    /\ stages = << >>
    /\ click = NoClick

\* the locals of a cycle go away
ResetCycle ==
    /\ question' = T_empty
    /\ answer_options' = << >>
    /\ answers_img' = NoImage
    /\ button_positions' = << >>
    /\ search_results' = << >>
    /\ scores' = NoScores
    /\ best_answer' = T_empty
    /\ confidence' = Zero
    /\ stages' = << >>
    /\ click' = NoClick

\* KahootAgent.__init__
NewAgent ==
    /\ running = FALSE
    /\ last_question = T_empty
    /\ question_count = 0
    /\ pc = "start"
    /\ FreshCycle
    /\ result = "none"
    /\ faulted = FALSE
    /\ exit_reason = "none"
    /\ NewSearcher
    /\ NewRecognizer
    /\ NewPointer

\* KahootAgent.__init__ followed by main()'s configuration
Init ==
    /\ auto_click \in BOOLEAN
    /\ min_confidence \in MinConfidences
    /\ scan_interval \in ScanIntervals
    /\ NewAgent

\* process_question goes on to its next statement
Goto(next) ==
    /\ pc' = next
    /\ UNCHANGED <<result, faulted, running, exit_reason>>

\* process_question returns r; run_continuous goes on to its sleep
Return(r) ==
    /\ result' = r
    /\ faulted' = FALSE
    /\ pc' = "sleep"
    /\ UNCHANGED <<running, exit_reason>>

\* process_question without its except clause: the exception reaches
\* run_continuous, whose handler and finally clause end the loop
Raise_Propagates ==
    /\ pc' = "done"
    /\ running' = FALSE
    /\ exit_reason' = "error"
    /\ faulted' = TRUE
    /\ UNCHANGED result

\* an exception is raised inside process_question's try block: its except
\* clause returns False
Raise ==
    /\ result' = "failure"
    /\ faulted' = TRUE
    /\ pc' = "sleep"
    /\ UNCHANGED <<running, exit_reason>>

\* run_continuous up to its loop: self.running = True
Start ==
    /\ pc = "start"
    /\ running' = TRUE
    /\ pc' = "loop"
    /\ UNCHANGED <<config, searcher, recognizer, pointer, last_question, question_count, cycle, result,
                   faulted, exit_reason>>

\* while self.running: the next process_question begins, or the loop is left
\* and the finally clause clears self.running
LoopCheck ==
    /\ pc = "loop"
    /\ IF running
       THEN /\ question_count < MaxQuestions
            /\ pc' = "capture"
            /\ UNCHANGED <<running, exit_reason>>
       ELSE /\ pc' = "done"
            /\ running' = FALSE
            /\ exit_reason' = "flag"
    /\ UNCHANGED <<config, searcher, recognizer, pointer, last_question, question_count, cycle, result, faulted>>

\* capture_question_area and capture_answers_area: an exception, or two
\* buffers of which either may be None (then question is None, options [])
Capture ==
    /\ pc = "capture"
    /\ stages' = Append(stages, "capture")
    /\ \/ /\ Raise
          /\ UNCHANGED answers_img
       \/ \E question_none \in BOOLEAN, img \in Images \cup {NoImage} :
             /\ answers_img' = img
             /\ Goto(IF question_none \/ img.none THEN "check" ELSE "extract_question")
    /\ UNCHANGED <<config, searcher, recognizer, pointer, last_question, question_count, question,
                   answer_options, button_positions, search_results, scores,
                   best_answer, confidence, click>>

\* extract_question: an exception of the OCR backend, or the cleaned text
\* (None when empty, and then capture_and_analyze returns None, [], [])
ExtractQuestion ==
    /\ pc = "extract_question"
    /\ stages' = Append(stages, "extract_question")
    /\ \/ /\ Raise
          /\ UNCHANGED question
       \/ \E text \in Questions \cup {T_empty} :
             /\ question' = text
             /\ Goto(IF text = T_empty THEN "check" ELSE "extract_answers")
    /\ UNCHANGED <<config, searcher, recognizer, pointer, last_question, question_count, answer_options,
                   answers_img, button_positions, search_results, scores,
                   best_answer, confidence, click>>

\* extract_answers: an exception of the OCR backend, or the parsed options
\* (when there are none capture_and_analyze returns question, [], [])
ExtractAnswers ==
    /\ pc = "extract_answers"
    /\ stages' = Append(stages, "extract_answers")
    /\ \/ /\ Raise
          /\ UNCHANGED answer_options
       \/ \E options \in SeqsUpTo(OptionTexts, MaxOptions) :
             /\ answer_options' = options
             /\ Goto(IF options = << >> THEN "check" ELSE "find_buttons")
    /\ UNCHANGED <<config, searcher, recognizer, pointer, last_question, question_count, question,
                   answers_img, button_positions, search_results, scores,
                   best_answer, confidence, click>>

\* capture_and_analyze running the color strategy in every cycle and taking
\* its positions whenever it found some
FindButtons_ColorFirst ==
    /\ pc = "find_buttons"
    /\ LET found == find_answer_buttons(answers_img, answer_options)
       IN  \E colors \in ColorOutcomes :
              /\ button_positions' = IF colors # << >> THEN colors ELSE found
              /\ stages' = stages \o <<"find_answer_buttons",
                                       "find_color_coded_answers">>
    /\ Goto("check")
    /\ UNCHANGED <<config, searcher, recognizer, pointer, last_question, question_count, question,
                   answer_options, answers_img, search_results, scores,
                   best_answer, confidence, click>>

\* find_answer_buttons, and find_color_coded_answers when it found nothing
FindButtons ==
    /\ pc = "find_buttons"
    /\ LET found == find_answer_buttons(answers_img, answer_options)
       IN  \E colors \in ColorOutcomes :
              /\ button_positions' = IF found # << >> THEN found ELSE colors
              /\ stages' = IF found # << >>
                           THEN Append(stages, "find_answer_buttons")
                           ELSE stages \o <<"find_answer_buttons",
                                            "find_color_coded_answers">>
    /\ Goto("check")
    /\ UNCHANGED <<config, searcher, recognizer, pointer, last_question, question_count, question,
                   answer_options, answers_img, search_results, scores,
                   best_answer, confidence, click>>

\* process_question doing its bookkeeping in every cycle that reaches it
CheckQuestion_CountsEveryCycle ==
    /\ pc = "check"
    /\ last_question' = question
    /\ question_count' = question_count + 1
    /\ IF question = T_empty \/ answer_options = << >>
       THEN Return("failure")
       ELSE IF question = last_question
       THEN Return("success")
       ELSE Goto("search")
    /\ UNCHANGED <<config, searcher, recognizer, pointer, cycle>>

\* process_question going on to the search without recording the question
CheckQuestion_NoRecord ==
    /\ pc = "check"
    /\ IF question = T_empty \/ answer_options = << >>
       THEN Return("failure")
       ELSE IF question = last_question
       THEN Return("success")
       ELSE Goto("search")
    /\ UNCHANGED <<last_question, question_count>>
    /\ UNCHANGED <<config, searcher, recognizer, pointer, cycle>>

\* process_question taking for seen every question once as many new questions
\* were processed as there are questions
CheckQuestion_RemembersAll ==
    /\ pc = "check"
    /\ IF question = T_empty \/ answer_options = << >>
       THEN /\ Return("failure")
            /\ UNCHANGED <<last_question, question_count>>
       ELSE IF question = last_question \/ question_count >= Cardinality(Questions)
       THEN /\ Return("success")
            /\ UNCHANGED <<last_question, question_count>>
       ELSE /\ last_question' = question
            /\ question_count' = question_count + 1
            /\ Goto("search")
    /\ UNCHANGED <<config, searcher, recognizer, pointer, cycle>>

\* process_question without the comparison with last_question
CheckQuestion_NoDedup ==
    /\ pc = "check"
    /\ IF question = T_empty \/ answer_options = << >>
       THEN /\ Return("failure")
            /\ UNCHANGED <<last_question, question_count>>
       ELSE /\ last_question' = question
            /\ question_count' = question_count + 1
            /\ Goto("search")
    /\ UNCHANGED <<config, searcher, recognizer, pointer, cycle>>

\* process_question checking the question only, not the options
CheckQuestion_NoOptionsCheck ==
    /\ pc = "check"
    /\ IF question = T_empty
       THEN /\ Return("failure")
            /\ UNCHANGED <<last_question, question_count>>
       ELSE IF question = last_question
       THEN /\ Return("success")
            /\ UNCHANGED <<last_question, question_count>>
       ELSE /\ last_question' = question
            /\ question_count' = question_count + 1
            /\ Goto("search")
    /\ UNCHANGED <<config, searcher, recognizer, pointer, cycle>>

\* process_question after capture_and_analyze: the emptiness check, the
\* comparison with last_question, and the bookkeeping of a new question
CheckQuestion ==
    /\ pc = "check"
    /\ IF question = T_empty \/ answer_options = << >>
       THEN /\ Return("failure")
            /\ UNCHANGED <<last_question, question_count>>
       ELSE IF question = last_question
       THEN /\ Return("success")
            /\ UNCHANGED <<last_question, question_count>>
       ELSE /\ last_question' = question
            /\ question_count' = question_count + 1
            /\ Goto("search")
    /\ UNCHANGED <<config, searcher, recognizer, pointer, cycle>>

\* what the searches of one find_best_answer call can come to: an exception
\* inside its try block, or the combined result list (empty when every search
\* failed or found nothing)
SearchOutcomes ==
    { [fault |-> TRUE, results |-> << >>] }
    \cup { [fault |-> FALSE, results |-> r] : r \in SeqsUpTo(LoopResults, MaxResults) }

\* search_for_answer, and the check of its best_answer; or an exception
\* raised where no handler of the searcher stands (a print of
\* process_question, of search_for_answer or of find_best_answer)
Search ==
    /\ pc = "search"
    /\ stages' = Append(stages, "find_best_answer")
    /\ \/ /\ Raise
          /\ UNCHANGED <<search_results, scores, best_answer, confidence>>
       \/ \E outcome \in SearchOutcomes :
             LET found == find_best_answer(question, answer_options, outcome)
             IN  /\ search_results' = outcome.results
                 /\ scores' = found.scores
                 /\ best_answer' = found.answer
                 /\ confidence' = found.confidence
                 /\ IF found.answer = T_empty
                    THEN Return("failure")
                    ELSE Goto("decide")
    /\ UNCHANGED <<config, searcher, recognizer, pointer, last_question, question_count, question,
                   answer_options, answers_img, button_positions, click>>

\* the offset of the answers area: 40% of the monitor's height
answers_area_offset == <<0, (Monitor.height * 4) \div 10>>

\* the gate without the auto_click switch
Gate_IgnoresAutoClick ==
    /\ FracGE(confidence, min_confidence)
    /\ button_positions # << >>

\* the gate with a strict comparison
Gate_Strict ==
    /\ auto_click
    /\ FracGT(confidence, min_confidence)
    /\ button_positions # << >>

\* the condition under which process_question calls click_best_answer
Gate ==
    /\ auto_click
    /\ FracGE(confidence, min_confidence)
    /\ button_positions # << >>

\* the action stage calling click_best_answer a second time after a click
Decide_ClicksTwice ==
    /\ pc = "decide"
    /\ IF Gate
       THEN /\ stages' = Append(stages, "click_best_answer")
            /\ \E dispatched \in BOOLEAN :
                  click' = IF dispatched
                           THEN click_best_answer(best_answer, answer_options,
                                    button_positions, answers_area_offset)
                           ELSE NoClick
            /\ clicks' = IF click' # NoClick THEN clicks + 2 ELSE clicks
       ELSE UNCHANGED <<stages, click, clicks>>
    /\ \/ Return("success")
       \/ Raise
    /\ UNCHANGED <<config, searcher, recognizer, last_question, question_count, question,
                   answer_options, answers_img, button_positions, search_results,
                   scores, best_answer, confidence>>

\* the action stage: click_best_answer behind the gate; pyautogui.click is
\* given the position, or raises before clicking (click_answer returns False).
\* process_question then returns True, unless one of its prints raised
Decide ==
    /\ pc = "decide"
    /\ IF Gate
       THEN /\ stages' = Append(stages, "click_best_answer")
            /\ \E dispatched \in BOOLEAN :
                  click' = IF dispatched
                           THEN click_best_answer(best_answer, answer_options,
                                    button_positions, answers_area_offset)
                           ELSE NoClick
            /\ clicks' = IF click' # NoClick THEN clicks + 1 ELSE clicks
       ELSE UNCHANGED <<stages, click, clicks>>
    /\ \/ Return("success")
       \/ Raise
    /\ UNCHANGED <<config, searcher, recognizer, last_question, question_count, question,
                   answer_options, answers_img, button_positions, search_results,
                   scores, best_answer, confidence>>

\* time.sleep(self.scan_interval); the cycle's locals are gone, and so is
\* what process_question returned, which run_continuous does not keep
Sleep ==
    /\ pc = "sleep"
    /\ pc' = "loop"
    /\ ResetCycle
    /\ result' = "none"
    /\ faulted' = FALSE
    /\ UNCHANGED <<config, searcher, recognizer, pointer, running, last_question, question_count,
                   exit_reason>>

InCycle == pc \in {"capture", "extract_question", "extract_answers",
                   "find_buttons", "check", "search", "decide"}

\* stop(), called while the agent runs
Stop ==
    /\ running
    /\ running' = FALSE
    /\ UNCHANGED <<config, searcher, recognizer, pointer, last_question, question_count, pc, cycle, result,
                   faulted, exit_reason>>

\* KeyboardInterrupt: not an Exception, so no handler of the cycle catches it
\* and process_question's frame is unwound; run_continuous's handler and its
\* finally clause end the loop
Interrupt ==
    /\ InCycle \/ pc \in {"loop", "sleep"}
    /\ pc' = "done"
    /\ running' = FALSE
    /\ exit_reason' = "interrupt"
    /\ ResetCycle
    /\ UNCHANGED <<config, searcher, recognizer, pointer, last_question, question_count, result, faulted>>

Next ==
    \/ Start
    \/ LoopCheck
    \/ Capture
    \/ ExtractQuestion
    \/ ExtractAnswers
    \/ FindButtons
    \/ CheckQuestion
    \/ Search
    \/ Decide
    \/ Sleep
    \/ Stop
    \/ Interrupt

Spec == Init /\ [][Next]_vars

(***************************************************************************)
(* The scorer on its own: extract_potential_answers applied to the inputs. *)
(***************************************************************************)
ScoreInit ==
    /\ auto_click = FALSE
    /\ min_confidence = Default_min_confidence
    /\ scan_interval \in ScanIntervals
    /\ running = FALSE
    /\ last_question = T_empty
    /\ question_count = 0
    /\ pc = "score"
    /\ question = T_empty
    /\ answer_options \in SeqsUpTo(ScorerOptionTexts, MaxOptions)
    /\ answers_img = NoImage
    /\ button_positions = << >>
    /\ search_results \in SeqsUpTo(Results, MaxResults)
    /\ scores = NoScores
    /\ best_answer = T_empty
    /\ confidence = Zero
    /\ stages = << >>
    /\ click = NoClick
    /\ result = "none"
    /\ faulted = FALSE
    /\ exit_reason = "none"
    /\ NewSearcher
    /\ NewRecognizer
    /\ NewPointer

ExtractPotentialAnswers ==
    /\ pc = "score"
    /\ scores' = extract_potential_answers(search_results, answer_options)
    /\ pc' = "scored"
    /\ UNCHANGED <<config, searcher, recognizer, pointer, running, last_question, question_count, question,
                   answer_options, answers_img, button_positions, search_results,
                   best_answer, confidence, stages, click, result, faulted,
                   exit_reason>>

ScoreNext == ExtractPotentialAnswers

ScoreSpec == ScoreInit /\ [][ScoreNext]_vars

(***************************************************************************)
(* The gate on its own: process_question with search_for_answer returning  *)
(* any of the options at any of a few confidences.                         *)
(***************************************************************************)
TwoFifths == <<2, 5>>
GateConfidences == {Zero, TwoFifths, Half, One}
GateMinConfidences == {Default_min_confidence, Half}

GateInit ==
    /\ auto_click \in BOOLEAN
    /\ min_confidence \in GateMinConfidences
    /\ scan_interval \in ScanIntervals
    /\ NewAgent

\* search_for_answer returns some option and some confidence
SearchAny ==
    /\ pc = "search"
    /\ stages' = Append(stages, "find_best_answer")
    /\ \E best \in Range(answer_options), conf \in GateConfidences :
          /\ best_answer' = best
          /\ confidence' = conf
    /\ Goto("decide")
    /\ UNCHANGED <<config, searcher, recognizer, pointer, last_question, question_count, question,
                   answer_options, answers_img, button_positions, search_results,
                   scores, click>>

GateNext ==
    \/ Start
    \/ LoopCheck
    \/ Capture
    \/ ExtractQuestion
    \/ ExtractAnswers
    \/ FindButtons
    \/ CheckQuestion
    \/ SearchAny
    \/ Decide
    \/ Sleep
    \/ Stop
    \/ Interrupt

GateSpec == GateInit /\ [][GateNext]_vars

(***************************************************************************)
(* find_best_answer on its own, applied to the inputs.                     *)
(***************************************************************************)
BestOptionSeqs == SeqsUpTo(ScorerOptionTexts, MaxOptions) \cup {Capitals}

BestInit ==
    /\ auto_click = FALSE
    /\ min_confidence = Default_min_confidence
    /\ scan_interval \in ScanIntervals
    /\ running = FALSE
    /\ last_question = T_empty
    /\ question_count = 0
    /\ pc = "best_call"
    /\ question = T_Q1
    /\ answer_options \in BestOptionSeqs
    /\ answers_img = NoImage
    /\ button_positions = << >>
    /\ search_results \in SeqsUpTo(BestResults, MaxResults)
    /\ scores = NoScores
    /\ best_answer = T_empty
    /\ confidence = Zero
    /\ stages = << >>
    /\ click = NoClick
    /\ result = "none"
    /\ faulted = FALSE
    /\ exit_reason = "none"
    /\ NewSearcher
    /\ NewRecognizer
    /\ NewPointer

\* find_best_answer(question, answer_options): the searches return
\* search_results, or an exception is raised inside the try block
FindBestAnswer ==
    /\ pc = "best_call"
    /\ \E fault \in BOOLEAN :
          LET found == find_best_answer(question, answer_options,
                           [fault |-> fault, results |-> search_results])
          IN  /\ scores' = found.scores
              /\ best_answer' = found.answer
              /\ confidence' = found.confidence
              /\ faulted' = fault
    /\ pc' = "best_return"
    /\ UNCHANGED <<config, searcher, recognizer, pointer, running, last_question, question_count, question,
                   answer_options, answers_img, button_positions, search_results,
                   stages, click, result, exit_reason>>

BestNext == FindBestAnswer

BestSpec == BestInit /\ [][BestNext]_vars

(***************************************************************************)
(* find_answer_buttons on its own, applied to images of several shapes.    *)
(***************************************************************************)
Widths == {800, 801, 600, 7}
Heights == {600, 601, 400, 3}
ButtonImages == { [none |-> FALSE, width |-> w, height |-> h] :
                      w \in Widths, h \in Heights }

ButtonInit ==
    /\ auto_click = FALSE
    /\ min_confidence = Default_min_confidence
    /\ scan_interval \in ScanIntervals
    /\ running = FALSE
    /\ last_question = T_empty
    /\ question_count = 0
    /\ pc = "buttons_call"
    /\ question = T_empty
    /\ answer_options \in SeqsUpTo({T_Paris}, MaxButtonOptions)
    /\ answers_img \in ButtonImages
    /\ button_positions = << >>
    /\ search_results = << >>
    /\ scores = NoScores
    /\ best_answer = T_empty
    /\ confidence = Zero
    /\ stages = << >>
    /\ click = NoClick
    /\ result = "none"
    /\ faulted = FALSE
    /\ exit_reason = "none"
    /\ NewSearcher
    /\ NewRecognizer
    /\ NewPointer

FindAnswerButtons ==
    /\ pc = "buttons_call"
    /\ button_positions' = find_answer_buttons(answers_img, answer_options)
    /\ pc' = "buttons_return"
    /\ UNCHANGED <<config, searcher, recognizer, pointer, running, last_question, question_count, question,
                   answer_options, answers_img, search_results, scores,
                   best_answer, confidence, stages, click, result, faulted,
                   exit_reason>>

ButtonNext == FindAnswerButtons

ButtonSpec == ButtonInit /\ [][ButtonNext]_vars

(***************************************************************************)
(* click_best_answer on its own: the chosen answer need not be an option.  *)
(***************************************************************************)
ClickAnswers == {T_York, Lower(T_York), T_paris_york, T_New_ideas, T_London, T_empty}

ClickInit ==
    /\ auto_click = TRUE
    /\ min_confidence = Default_min_confidence
    /\ scan_interval \in ScanIntervals
    /\ running = FALSE
    /\ last_question = T_empty
    /\ question_count = 0
    /\ pc = "click_call"
    /\ question = T_empty
    /\ answer_options \in SeqsUpTo(ScorerOptionTexts, MaxOptions)
    /\ answers_img \in Images
    /\ button_positions = find_answer_buttons(answers_img, answer_options)
    /\ search_results = << >>
    /\ scores = NoScores
    /\ best_answer \in ClickAnswers
    /\ confidence = Zero
    /\ stages = << >>
    /\ click = NoClick
    /\ result = "none"
    /\ faulted = FALSE
    /\ exit_reason = "none"
    /\ NewSearcher
    /\ NewRecognizer
    /\ NewPointer

\* click_best_answer(best_answer, answer_options, button_positions, offset):
\* pyautogui.click is given the position, or raises before clicking
ClickBestAnswer ==
    /\ pc = "click_call"
    /\ \E dispatched \in BOOLEAN :
          /\ click' = IF dispatched
                      THEN click_best_answer(best_answer, answer_options,
                               button_positions, answers_area_offset)
                      ELSE NoClick
          /\ faulted' = ~dispatched
    /\ clicks' = IF click' # NoClick THEN clicks + 1 ELSE clicks
    /\ result' = IF click' # NoClick THEN "success" ELSE "failure"
    /\ pc' = "click_return"
    /\ UNCHANGED <<config, searcher, recognizer, running, last_question, question_count, question,
                   answer_options, answers_img, button_positions, search_results,
                   scores, best_answer, confidence, stages, exit_reason>>

ClickNext == ClickBestAnswer

ClickSpec == ClickInit /\ [][ClickNext]_vars

(***************************************************************************)
(* AnswerSearcher.search_google: the snippet made of a page's text.        *)
(***************************************************************************)
\* the first line break of s at or after i, 0 when there is none
FirstBreak(s, i) ==
    IF \E j \in i..Len(s) : s[j] = "\n"
    THEN CHOOSE j \in i..Len(s) : s[j] = "\n" /\ \A k \in i..(j - 1) : s[k] # "\n"
    ELSE 0

RECURSIVE SplitPageLines(_, _)
\* text.splitlines(), from position i on: no line after a final line break
SplitPageLines(s, i) ==
    IF i > Len(s) THEN << >>
    ELSE LET b == FirstBreak(s, i)
         IN  IF b = 0 THEN <<SubSeq(s, i, Len(s))>>
             ELSE <<SubSeq(s, i, b - 1)>> \o SplitPageLines(s, b + 1)

\* the first place at or after i where two spaces stand, 0 when there is none
FirstDouble(s, i) ==
    IF \E j \in i..(Len(s) - 1) : s[j] = " " /\ s[j + 1] = " "
    THEN CHOOSE j \in i..(Len(s) - 1) :
            /\ s[j] = " " /\ s[j + 1] = " "
            /\ \A k \in i..(j - 1) : ~(s[k] = " " /\ s[k + 1] = " ")
    ELSE 0

RECURSIVE SplitDouble(_, _)
\* line.split("  "), from position i on
SplitDouble(s, i) ==
    LET p == FirstDouble(s, i)
    IN  IF p = 0 THEN <<SubSeq(s, i, Len(s))>>
        ELSE <<SubSeq(s, i, p - 1)>> \o SplitDouble(s, p + 2)

RECURSIVE Chunks(_)
\* phrase.strip() for line in lines for phrase in line.split("  "), the empty
\* ones left out
Chunks(lines) ==
    IF lines = << >> THEN << >>
    ELSE LET phrases == SplitDouble(Strip(Head(lines)), 1)
             stripped == [k \in 1..Len(phrases) |-> Strip(phrases[k])]
         IN  SelectSeq(stripped, LAMBDA chunk : chunk # << >>) \o Chunks(Tail(lines))

\* lines 99-101: the text of the page flattened to chunks joined by a space
FlattenText(text) == Join(Chunks(SplitPageLines(text, 1)))

snippet_limit == 500
Ellipsis == <<".", ".", ".">>

\* text[:500] + "..." if len(text) > 500 else text
Snippet(text) ==
    IF Len(text) > snippet_limit
    THEN SubSeq(text, 1, snippet_limit) \o Ellipsis
    ELSE text

\* the result search_google appends for the page at url with the text given
PageResult(url, text) ==
    [title |-> T_quiz, url |-> url, snippet |-> Snippet(FlattenText(text))]

(***************************************************************************)
(* The gather of find_best_answer on its own: the general search_google    *)
(* call and the site-restricted ones of search_educational_sites, with the *)
(* clock.                                                                  *)
(***************************************************************************)
\* how long an outbound call takes, in ticks
Durations == {1, 3}
\* num_results of the pass: 3 for the general search, 2 for a site
NumResults(p) == IF p = 0 THEN 3 ELSE 2
\* the result search_google builds from the page at url
Page(url) == PageResult(url, T_nothing)
\* the URLs a search of pass p can yield
UrlLists(p) == { [k \in 1..n |-> <<p, k>>] : n \in 0..Min(NumResults(p), MaxUrls) }

\* rate_limit() called at time t: the time it returns, having slept the rest
\* of the interval
rate_limit(t, last) ==
    IF t - last < min_request_interval THEN last + min_request_interval ELSE t

GatherInit ==
    /\ auto_click = FALSE
    /\ min_confidence = Default_min_confidence
    /\ scan_interval \in ScanIntervals
    /\ running = FALSE
    /\ last_question = T_empty
    /\ question_count = 0
    /\ pc = "search_google"
    /\ question = T_Q1
    /\ answer_options = <<T_Paris>>
    /\ answers_img = NoImage
    /\ button_positions = << >>
    /\ search_results = << >>
    /\ scores = NoScores
    /\ best_answer = T_empty
    /\ confidence = Zero
    /\ stages = << >>
    /\ click = NoClick
    /\ result = "none"
    /\ faulted = FALSE
    /\ exit_reason = "none"
    /\ NewSearcher
    /\ NewRecognizer
    /\ NewPointer

\* search_google returns; the caller adds what it returned to its results and
\* goes on to the next site, or to the scoring after the last one
ReturnFromPass(returned) ==
    /\ search_results' = search_results \o returned
    /\ pass' = pass + 1
    /\ urls_left' = << >>
    /\ pass_results' = << >>
    /\ pc' = IF pass + 1 > MaxSites THEN "gathered" ELSE "search_google"

\* search_google up to its loop: rate_limit(), then the search, which raises
\* (the outer handler returns []) or yields some URLs
SearchGoogle ==
    /\ pc = "search_google"
    /\ LET gate == rate_limit(now, last_request_time)
       IN  /\ last_request_time' = gate
           /\ last_call_time' = gate
           /\ searched' = searched \cup {pass}
           /\ \E d \in Durations :
                 /\ now' = gate + d
                 /\ \/ /\ failures' = failures \cup {<<pass, 0>>}
                       /\ ReturnFromPass(<< >>)
                       /\ UNCHANGED fetched
                    \/ \E urls \in UrlLists(pass) :
                          /\ urls_left' = urls
                          /\ pass_results' = << >>
                          /\ pc' = "fetch"
                          /\ UNCHANGED <<search_results, pass, failures, fetched>>
    /\ UNCHANGED <<config, recognizer, pointer, page_text, running, last_question, question_count,
                   question, answer_options, answers_img, button_positions, scores,
                   best_answer, confidence, stages, click, result, faulted,
                   exit_reason>>

\* fetching without the inner handler: the exception reaches the outer one,
\* which returns []
FetchFailed_AbortsPass ==
    ReturnFromPass(<< >>)

\* the inner handler: the URL is skipped, the loop goes on
FetchFailed ==
    /\ urls_left' = Tail(urls_left)
    /\ UNCHANGED <<pass_results, search_results, pass, pc>>

\* one turn of search_google's loop: the page is fetched and parsed, the
\* result appended and rate_limit() called; or an exception is raised
FetchUrl ==
    /\ pc = "fetch"
    /\ urls_left # << >>
    /\ last_call_time' = now
    /\ \E d \in Durations :
          \/ /\ pass_results' = Append(pass_results, Page(Head(urls_left)))
             /\ fetched' = fetched \cup {Head(urls_left)}
             /\ now' = rate_limit(now + d, last_request_time)
             /\ last_request_time' = now'
             /\ urls_left' = Tail(urls_left)
             /\ UNCHANGED <<search_results, pass, pc, failures>>
          \/ /\ failures' = failures \cup {Head(urls_left)}
             /\ now' = now + d
             /\ FetchFailed
             /\ UNCHANGED <<fetched, last_request_time>>
    /\ UNCHANGED <<config, recognizer, pointer, page_text, running, last_question, question_count,
                   question, answer_options, answers_img, button_positions, scores,
                   best_answer, confidence, stages, click, result, faulted,
                   exit_reason, searched>>

\* the loop is over: return results
ReturnResults ==
    /\ pc = "fetch"
    /\ urls_left = << >>
    /\ ReturnFromPass(pass_results)
    /\ UNCHANGED <<config, recognizer, pointer, page_text, running, last_question, question_count,
                   question, answer_options, answers_img, button_positions, scores,
                   best_answer, confidence, stages, click, result, faulted,
                   exit_reason, now, last_request_time, last_call_time, fetched,
                   failures, searched>>

GatherNext ==
    \/ SearchGoogle
    \/ FetchUrl
    \/ ReturnResults

GatherSpec == GatherInit /\ [][GatherNext]_vars

(***************************************************************************)
(* One turn of search_google's loop on its own: the snippet of a page,     *)
(* for page texts around the limit in several layouts.                     *)
(***************************************************************************)
Ink(n) == [i \in 1..n |-> "a"]
\* the lengths of the run of text: short ones, and those around the limit
PageLens == (0..MaxOver) \cup ((snippet_limit - MaxOver)..(snippet_limit + MaxOver))
\* what stands before, between and after the runs of text
Layouts == { << >>, <<" ">>, <<" ", " ">>, <<" ", " ", " ">>, <<"\n">>,
             <<" ", "\n", " ">>, <<"\t">> }
PageTexts == { sep \o <<"b">> \o sep \o Ink(n) \o sep : sep \in Layouts, n \in PageLens }

SnippetInit ==
    /\ auto_click = FALSE
    /\ min_confidence = Default_min_confidence
    /\ scan_interval \in ScanIntervals
    /\ running = FALSE
    /\ last_question = T_empty
    /\ question_count = 0
    /\ pc = "fetch_page"
    /\ question = T_Q1
    /\ answer_options = <<T_Paris>>
    /\ answers_img = NoImage
    /\ button_positions = << >>
    /\ search_results = << >>
    /\ scores = NoScores
    /\ best_answer = T_empty
    /\ confidence = Zero
    /\ stages = << >>
    /\ click = NoClick
    /\ result = "none"
    /\ faulted = FALSE
    /\ exit_reason = "none"
    /\ now = 2 * min_request_interval
    /\ last_request_time = 0
    /\ last_call_time = NoCall
    /\ pass = 0
    /\ urls_left = << <<0, 1>> >>
    /\ pass_results = << >>
    /\ fetched = {}
    /\ failures = {}
    /\ searched = {0}
    /\ page_text \in PageTexts
    /\ NewRecognizer
    /\ NewPointer

\* the body of the loop for one URL: the page's text is flattened and cut,
\* and the result appended
FetchPage ==
    /\ pc = "fetch_page"
    /\ pass_results' = Append(pass_results, PageResult(Head(urls_left), page_text))
    /\ fetched' = fetched \cup {Head(urls_left)}
    /\ urls_left' = Tail(urls_left)
    /\ pc' = "fetched_page"
    /\ UNCHANGED <<config, recognizer, pointer, page_text, running, last_question,
                   question_count, question, answer_options, answers_img,
                   button_positions, search_results, scores, best_answer,
                   confidence, stages, click, result, faulted, exit_reason, now,
                   last_request_time, last_call_time, pass, failures, searched>>

SnippetNext == FetchPage

SnippetSpec == SnippetInit /\ [][SnippetNext]_vars

(***************************************************************************)
(* clean_query on its own, applied to a question and then to its result.   *)
(***************************************************************************)
QueryTokens == { <<"a">>, <<"W", "h", "a", "t">>, <<".">>, <<"?">>, <<" ">> }

RECURSIVE Flatten(_)
Flatten(tokens) ==
    IF tokens = << >> THEN << >> ELSE Head(tokens) \o Flatten(Tail(tokens))

RawQuestions == { Flatten(tokens) : tokens \in SeqsUpTo(QueryTokens, MaxTokens) }

CleanInit ==
    /\ auto_click = FALSE
    /\ min_confidence = Default_min_confidence
    /\ scan_interval \in ScanIntervals
    /\ running = FALSE
    /\ last_question = T_empty
    /\ question_count = 0
    /\ pc = "clean_query"
    /\ question \in RawQuestions
    /\ answer_options = << >>
    /\ answers_img = NoImage
    /\ button_positions = << >>
    /\ search_results = << >>
    /\ scores = NoScores
    /\ best_answer = T_empty
    /\ confidence = Zero
    /\ stages = << >>
    /\ click = NoClick
    /\ result = "none"
    /\ faulted = FALSE
    /\ exit_reason = "none"
    /\ NewSearcher
    /\ NewRecognizer
    /\ NewPointer

\* question = clean_query(question), once and once more
CleanQuery ==
    /\ pc \in {"clean_query", "cleaned"}
    /\ question' = clean_query(question)
    /\ pc' = IF pc = "clean_query" THEN "cleaned" ELSE "cleaned_again"
    /\ UNCHANGED <<config, searcher, recognizer, pointer, running, last_question, question_count,
                   answer_options, answers_img, button_positions, search_results,
                   scores, best_answer, confidence, stages, click, result,
                   faulted, exit_reason>>

CleanNext == CleanQuery

CleanSpec == CleanInit /\ [][CleanNext]_vars

(***************************************************************************)
(* parse_answer_options on its own, applied to raw texts of some words.    *)
(***************************************************************************)
Letters == <<"a", "b", "c", "d", "e", "f", "g", "h", "i", "j", "k", "l", "m", "n", "o">>
\* the i-th word of a raw text: of 2 characters, or of 4
RawWord(long, i) == IF long THEN <<"o", "p", "t", Letters[i]>> ELSE <<"x", Letters[i]>>
Separators == { <<" ">>, <<"\n">>, <<" ", "\n", " ">> }

RECURSIVE JoinWith(_, _)
JoinWith(words, sep) ==
    IF words = << >> THEN << >>
    ELSE IF Len(words) = 1 THEN words[1]
    ELSE words[1] \o sep \o JoinWith(Tail(words), sep)

\* n words of one kind with one separator, some enumerated lines, and lines
\* that begin with a letter or a digit an enumerator could begin with
RawTexts ==
    { JoinWith([i \in 1..n |-> RawWord(long, i)], sep) :
          n \in 0..MaxRawWords, long \in BOOLEAN, sep \in Separators }
    \cup { <<"A", ")", " ">> \o T_Paris,
           <<"A", ")", " ">> \o T_Paris \o <<"\n", "2", ".", " ">> \o T_York,
           T_Berlin \o <<"\n">> \o T_Madrid,
           T_1984 \o <<"\n">> \o T_York }

ParseInit ==
    /\ auto_click = FALSE
    /\ min_confidence = Default_min_confidence
    /\ scan_interval \in ScanIntervals
    /\ running = FALSE
    /\ last_question = T_empty
    /\ question_count = 0
    /\ pc = "parse_answer_options"
    /\ question = T_empty
    /\ answer_options = << >>
    /\ answers_img = NoImage
    /\ button_positions = << >>
    /\ search_results = << >>
    /\ scores = NoScores
    /\ best_answer = T_empty
    /\ confidence = Zero
    /\ stages = << >>
    /\ click = NoClick
    /\ result = "none"
    /\ faulted = FALSE
    /\ exit_reason = "none"
    /\ NewSearcher
    /\ raw_text \in RawTexts
    /\ NewPointer

\* answers = self.parse_answer_options(text)
ParseAnswerOptions ==
    /\ pc = "parse_answer_options"
    /\ answer_options' = parse_answer_options(raw_text)
    /\ pc' = "parsed"
    /\ UNCHANGED <<config, searcher, recognizer, pointer, running, last_question,
                   question_count, question, answers_img, button_positions,
                   search_results, scores, best_answer, confidence, stages, click,
                   result, faulted, exit_reason>>

ParseNext == ParseAnswerOptions

ParseSpec == ParseInit /\ [][ParseNext]_vars

(***************************************************************************)
(* A cycle from extract_answers on, the options parsed from the text the   *)
(* OCR backend read, search_for_answer returning any of them.              *)
(***************************************************************************)
LocateInit ==
    /\ auto_click \in BOOLEAN
    /\ min_confidence \in GateMinConfidences
    /\ scan_interval \in ScanIntervals
    /\ running = TRUE
    /\ last_question = T_empty
    /\ question_count = 0
    /\ pc = "extract_answers"
    /\ question = T_Q1
    /\ answer_options = << >>
    /\ answers_img \in Images
    /\ button_positions = << >>
    /\ search_results = << >>
    /\ scores = NoScores
    /\ best_answer = T_empty
    /\ confidence = Zero
    /\ stages = <<"capture", "extract_question">>
    /\ click = NoClick
    /\ result = "none"
    /\ faulted = FALSE
    /\ exit_reason = "none"
    /\ NewSearcher
    /\ raw_text \in RawTexts
    /\ NewPointer

\* extract_answers on the text read: parse_answer_options(text)
ExtractAnswersOfText ==
    /\ pc = "extract_answers"
    /\ stages' = Append(stages, "extract_answers")
    /\ answer_options' = parse_answer_options(raw_text)
    /\ Goto(IF answer_options' = << >> THEN "check" ELSE "find_buttons")
    /\ UNCHANGED <<config, searcher, recognizer, pointer, last_question, question_count,
                   question, answers_img, button_positions, search_results, scores,
                   best_answer, confidence, click>>

LocateNext ==
    \/ ExtractAnswersOfText
    \/ FindButtons
    \/ CheckQuestion
    \/ SearchAny
    \/ Decide

LocateSpec == LocateInit /\ [][LocateNext]_vars

(***************************************************************************)
(* Properties of the scorer (ScoreSpec).                                   *)
(***************************************************************************)
Scored == pc = "scored"

\* some option is given a non-zero score by the scoring loop
HasEvidence ==
    /\ search_results # << >>
    /\ \E o \in Range(answer_options) :
          /\ o # T_empty
          /\ FracGT(OptionScore(o, AllText(search_results)), Zero)

AllZero == \A k \in DOMAIN scores : scores[k] = Zero

CoversOptions == DOMAIN scores = Range(answer_options)

\* C8: when some option has a non-zero raw score, the largest value of the
\* map extract_potential_answers returns is exactly 1.0 and every value lies
\* between 0.0 and 1.0.
C8_Normalized ==
    (Scored /\ HasEvidence) =>
        /\ \E k \in DOMAIN scores : scores[k] = One
        /\ \A k \in DOMAIN scores : FracGE(scores[k], Zero) /\ FracGE(One, scores[k])

\* a scored map in which one option has 1.0 and another a value strictly
\* between 0.0 and 1.0
C8_Witness ==
    /\ Scored
    /\ HasEvidence
    /\ \E k \in DOMAIN scores : scores[k] = One
    /\ \E k \in DOMAIN scores : FracGT(scores[k], Zero) /\ FracGT(One, scores[k])

\* neither the option text nor any of its words longer than 2 characters
\* occurs in the lower-cased text
NoMention(o, text) ==
    /\ ~Contains(text, Lower(o))
    /\ \A w \in Range(Split(Lower(o))) : Len(w) > 2 => ~Contains(text, w)

\* the option text occurs in no title and in no snippet text
NoOptionText(o) ==
    \A i \in DOMAIN search_results :
        /\ ~Contains(Lower(search_results[i].title), Lower(o))
        /\ ~Contains(Lower(search_results[i].snippet), Lower(o))

\* C9 (amended): when there are no snippets, or neither an option text nor a
\* word (longer than 2 characters) of an option occurs in the combined text of
\* the snippets, every score is 0.0 and the map still covers the options.
C9_ZeroEvidence ==
    (Scored /\ ( \/ search_results = << >>
                 \/ \A o \in Range(answer_options) :
                       NoMention(o, AllText(search_results)) )) =>
        (AllZero /\ CoversOptions)

\* snippets were found, none mentions an option or a word of it, and the map
\* is all zero
C9_Witness ==
    /\ Scored
    /\ search_results # << >>
    /\ answer_options # << >>
    /\ \A o \in Range(answer_options) : NoMention(o, AllText(search_results))
    /\ AllZero
    /\ CoversOptions

\* C9 as stated: when there are no snippets, or no option text occurs in any
\* snippet title or text, every score is 0.0 and the map covers the options.
C9_AsStated ==
    (Scored /\ ( \/ search_results = << >>
                 \/ \A o \in Range(answer_options) : NoOptionText(o) )) =>
        (AllZero /\ CoversOptions)

\* C10 as stated: the map has exactly one entry per element of the option
\* sequence, duplicates included.
C10_AsStated ==
    Scored => Cardinality(DOMAIN scores) = Len(answer_options)

(***************************************************************************)
(* Properties of the cycle and of the polling loop (Spec, GateSpec).       *)
(***************************************************************************)
CycleEnded == pc = "sleep"
Called(stage) == stage \in Range(stages)

\* the statement process_question executes after capture_and_analyze, for a
\* recognized question equal to last_question
SameQuestionStep ==
    /\ pc = "check"
    /\ pc' \in {"sleep", "search"}
    /\ question # T_empty
    /\ question = last_question

\* success without search, scoring, bookkeeping or click
NoOpSuccess ==
    /\ pc' = "sleep"
    /\ result' = "success"
    /\ question_count' = question_count
    /\ last_question' = last_question
    /\ ~Called("find_best_answer")'
    /\ ~Called("click_best_answer")'
    /\ click' = NoClick

\* C1 (amended): a cycle that recognized a question equal to last_question
\* together with a non-empty option sequence returns success as a no-op: no
\* search, no scoring, no increment of question_count, no click.
C1_Dedup ==
    [][(SameQuestionStep /\ answer_options # << >>) => NoOpSuccess]_vars

\* a cycle ended in success on the question processed before, nothing searched
C1_Witness ==
    /\ CycleEnded
    /\ result = "success"
    /\ question # T_empty
    /\ answer_options # << >>
    /\ question = last_question
    /\ question_count >= 1
    /\ ~Called("find_best_answer")
    /\ click = NoClick

\* C1 as stated: a cycle that recognized a question equal to last_question
\* returns success as a no-op.
C1_AsStated ==
    [][SameQuestionStep => NoOpSuccess]_vars

\* C2: a click is dispatched only if auto_click is set, the confidence is at
\* least min_confidence, a button position exists and the chosen answer
\* resolves to an index that has a button position; with auto_click unset no
\* click is ever dispatched.
C2_ClickOnlyIf ==
    /\ click # NoClick =>
          /\ auto_click
          /\ FracGE(confidence, min_confidence)
          /\ button_positions # << >>
          /\ LET answer_index == AnswerIndex(best_answer, answer_options)
             IN  /\ answer_index >= 0
                 /\ answer_index < Len(button_positions)
                 /\ click = ClickPosition(answer_index, button_positions,
                                          answers_area_offset)
    /\ ~auto_click => click = NoClick

\* a click was dispatched
C2_Witness ==
    /\ CycleEnded
    /\ click # NoClick
    /\ auto_click
    /\ Called("click_best_answer")

\* C3: with auto_click set, min_confidence 0.5 and a button available, a top
\* score of exactly 0.5 has the action stage called and a top score of 0.4
\* has not.
C3_Boundary ==
    ( /\ CycleEnded
      /\ Called("find_best_answer")
      /\ auto_click
      /\ min_confidence = Half
      /\ button_positions # << >> ) =>
        /\ confidence = Half => Called("click_best_answer")
        /\ confidence = TwoFifths => (~Called("click_best_answer") /\ click = NoClick)

\* the action stage was called at a top score equal to the threshold 0.5
C3_Witness ==
    /\ CycleEnded
    /\ auto_click
    /\ min_confidence = Half
    /\ confidence = Half
    /\ Called("click_best_answer")
    /\ click # NoClick

\* C4: a cycle reports success only if it obtained a non-empty question and a
\* non-empty option sequence; a capture without an image, an empty question
\* and an empty option list each end the cycle in failure.
C4_SuccessNeedsInput ==
    CycleEnded =>
        /\ result \in {"success", "failure"}
        /\ result = "success" => (question # T_empty /\ answer_options # << >>
                                  /\ ~answers_img.none)
        /\ (question = T_empty \/ answer_options = << >> \/ answers_img.none)
              => result = "failure"

\* a cycle that recognized a question but no options ended in failure, without
\* any exception
C4_Witness ==
    /\ CycleEnded
    /\ ~faulted
    /\ question # T_empty
    /\ answer_options = << >>
    /\ result = "failure"

\* C5: a new question with non-empty question and options, no exception
\* raised outside the stages, ends in success
\* with a recommendation also when every search failed or found nothing (all
\* scores are then zero) and when no button position was determined (then
\* nothing is clicked).
C5_Degraded ==
    ( /\ CycleEnded
      /\ ~faulted
      /\ Called("find_best_answer")
      /\ (search_results = << >> \/ button_positions = << >>) ) =>
        /\ result = "success"
        /\ best_answer \in Range(answer_options)
        /\ search_results = << >> => AllZero
        /\ button_positions = << >> => click = NoClick

\* a cycle whose searches found nothing ended in success, all scores zero
C5_Witness ==
    /\ CycleEnded
    /\ Called("find_best_answer")
    /\ search_results = << >>
    /\ scores # NoScores
    /\ AllZero
    /\ best_answer = answer_options[1]
    /\ result = "success"

\* C6: an exception raised by a stage never leaves process_question: the
\* cycle ends reporting failure and the loop goes on; run_continuous ends only
\* by the cleared running flag or by the user's interrupt.
C6_FaultsContained ==
    /\ faulted => result = "failure"
    /\ exit_reason # "error"
    /\ pc = "done" <=> exit_reason \in {"flag", "interrupt"}
    /\ pc = "done" => ~running

\* after a question was processed, a cycle ended in an exception of the
\* recognizer and run_continuous is at its sleep, the loop not left
C6_Witness ==
    /\ CycleEnded
    /\ faulted
    /\ result = "failure"
    /\ stages = <<"capture", "extract_question">>
    /\ question_count = 1
    /\ running
    /\ exit_reason = "none"

\* C7 as stated: cancellation is observed only between cycles, so the loop is
\* only ever left from between two cycles, never from inside one.
C7_AsStated ==
    [][(pc' = "done" /\ pc # "done") => pc \in {"loop", "sleep"}]_vars

(***************************************************************************)
(* Properties of find_best_answer (BestSpec).                              *)
(***************************************************************************)
BestReturned == pc = "best_return" /\ ~faulted /\ answer_options # << >>

\* C11: find_best_answer returns the first option, in option order, among
\* those of largest normalized score, whatever the scores (all equal and all
\* zero included), with that score as confidence.
C11_FirstMax ==
    BestReturned =>
        \E i \in DOMAIN answer_options :
            /\ best_answer = answer_options[i]
            /\ confidence = scores[answer_options[i]]
            /\ \A j \in DOMAIN answer_options :
                  FracGE(confidence, scores[answer_options[j]])
            /\ \A j \in 1..(i - 1) :
                  FracGT(confidence, scores[answer_options[j]])

\* two different options tie at 1.0 and the first of them is returned
C11_Witness ==
    /\ BestReturned
    /\ Len(answer_options) >= 2
    /\ answer_options[1] # answer_options[2]
    /\ scores[answer_options[1]] = One
    /\ scores[answer_options[2]] = One
    /\ best_answer = answer_options[1]
    /\ confidence = One

ParisEvidence == << [title |-> T_quiz, snippet |-> T_answer_is_paris] >>
SevenAndAHalf == <<15, 2>>

\* the option has a non-empty text, it or one of its words is in the
\* evidence, and no other option text nor word of one is
OnlyMentioned(o) ==
    /\ o # T_empty
    /\ search_results # << >>
    /\ ~NoMention(o, AllText(search_results))
    /\ \A other \in Range(answer_options) \ {o} :
          NoMention(other, AllText(search_results))

\* the option text is in the evidence and no other option text is
OnlyOccurring(o) ==
    /\ o # T_empty
    /\ search_results # << >>
    /\ Contains(AllText(search_results), Lower(o))
    /\ \A other \in Range(answer_options) \ {o} :
          ~Contains(AllText(search_results), Lower(other))

\* the sample scenario: Paris has raw score 2 + 0.5 + 5, every other option
\* 0, and Paris is returned at 1.0
ParisScenario ==
    (answer_options = Capitals /\ search_results = ParisEvidence) =>
        /\ OptionScore(T_Paris, AllText(search_results)) = SevenAndAHalf
        /\ \A o \in Range(Capitals) \ {T_Paris} :
              OptionScore(o, AllText(search_results)) = Zero
        /\ scores[T_Paris] = One
        /\ best_answer = T_Paris
        /\ confidence = One

\* C12 (amended): in the sample scenario Paris has the largest raw score
\* (direct x2 + word x0.5 + pattern x5), normalized score 1.0 and is returned
\* with confidence 1.0; in general the only option of which the text or a
\* word longer than 2 characters is in the evidence is returned at 1.0.
C12_OnlyMentioned ==
    BestReturned =>
        /\ ParisScenario
        /\ \A o \in Range(answer_options) :
              OnlyMentioned(o) => (best_answer = o /\ confidence = One)

\* the sample scenario has returned Paris at 1.0
C12_Witness ==
    /\ BestReturned
    /\ answer_options = Capitals
    /\ search_results = ParisEvidence
    /\ best_answer = T_Paris
    /\ confidence = One

\* C12 as stated: Paris in the sample scenario, and in general the only
\* option whose text is in the evidence is returned at 1.0.
C12_AsStated ==
    BestReturned =>
        /\ ParisScenario
        /\ \A o \in Range(answer_options) :
              OnlyOccurring(o) => (best_answer = o /\ confidence = One)

(***************************************************************************)
(* Properties of find_answer_buttons (ButtonSpec).                         *)
(***************************************************************************)
\* v is the integer part of m / 4
IsQuarter(v, m) == 4 * v <= m /\ m < 4 * v + 4

\* C13: for an image of width W and height H and n options,
\* find_answer_buttons returns exactly min(n, 4) positions, the k-th (from 0)
\* being the centre of the quadrant in column k mod 2 and row k div 2, that is
\* the prefix of (W/4,H/4), (3W/4,H/4), (W/4,3H/4), (3W/4,3H/4), the
\* quotients being integer quotients.
C13_Quadrants ==
    pc = "buttons_return" =>
        /\ Len(button_positions) = Min(Len(answer_options), 4)
        /\ \A k \in 0..(Len(button_positions) - 1) :
              /\ IsQuarter(button_positions[k + 1][1],
                           (2 * (k % 2) + 1) * answers_img.width)
              /\ IsQuarter(button_positions[k + 1][2],
                           (2 * (k \div 2) + 1) * answers_img.height)

\* the 800 x 600 image with 4 options
C13_Witness ==
    /\ pc = "buttons_return"
    /\ answers_img.width = 800
    /\ answers_img.height = 600
    /\ Len(answer_options) = 4
    /\ button_positions = << <<200, 150>>, <<600, 150>>, <<200, 450>>, <<600, 450>> >>

(***************************************************************************)
(* Properties of click_best_answer (ClickSpec).                            *)
(***************************************************************************)
\* the options whose text contains the chosen answer, case ignored
Containing == { i \in DOMAIN answer_options :
                  Contains(Lower(answer_options[i]), Lower(best_answer)) }
\* the number of words the chosen answer shares with option i
Overlap(i) == Cardinality(WordSet(best_answer) \cap WordSet(answer_options[i]))
\* the options of largest overlap
MostOverlap == { i \in DOMAIN answer_options :
                   \A j \in DOMAIN answer_options : Overlap(i) >= Overlap(j) }
Least(S) == CHOOSE i \in S : \A j \in S : i <= j
\* the option (from 1) selection-by-text maps the chosen answer to, 0 if none
Selected ==
    IF best_answer = T_empty \/ answer_options = << >> THEN 0
    ELSE IF Containing # {} THEN Least(Containing)
    ELSE IF \E i \in DOMAIN answer_options : Overlap(i) > 0 THEN Least(MostOverlap)
    ELSE 0

\* C14: click_best_answer chooses the first option whose text contains the
\* chosen answer, case ignored; otherwise the option sharing most words with
\* it, the first of them on a tie; when no option shares a word the action is
\* refused: it returns false and nothing is clicked.
C14_SelectionByText ==
    pc = "click_return" =>
        /\ Selected = 0 => (click = NoClick /\ result = "failure")
        /\ (Selected # 0 /\ ~faulted) =>
              /\ click = ClickPosition(Selected - 1, button_positions,
                                       answers_area_offset)
              /\ result = "success"
        /\ click # NoClick => Selected # 0

\* no option contains the chosen answer, two options share one word with it,
\* and the first of them is clicked
C14_Witness ==
    /\ pc = "click_return"
    /\ Containing = {}
    /\ Cardinality(MostOverlap) = 2
    /\ Overlap(1) = 1
    /\ click = ClickPosition(0, button_positions, answers_area_offset)

(***************************************************************************)
(* Properties of the gather (GatherSpec).                                  *)
(***************************************************************************)
\* C15 as stated: the gate is passed before every outbound call of a gather,
\* so any two consecutive outbound calls start at least min_request_interval
\* apart.
C15_AsStated ==
    [][(last_call_time' # last_call_time /\ last_call_time # NoCall) =>
           last_call_time' - last_call_time >= min_request_interval]_vars

Urls(results) == { results[i].url : i \in DOMAIN results }

C17_AsStated ==
    [][pc = "cleaned" => question' = question]_vars

(***************************************************************************)
(* Properties of the recognizer (Spec, ParseSpec).                         *)
(***************************************************************************)
\* C18 as stated: extract_question and extract_answers return an empty result
\* when the recognition backend raises; no exception of theirs reaches the
\* caller, so no cycle ends in process_question's handler on their account.
C18_AsStated ==
    (CycleEnded /\ faulted) =>
        stages[Len(stages)] \notin {"extract_question", "extract_answers"}

\* the usable fragments the line splitting leaves
Fragments == LineAnswers(SplitLines(raw_text, 1, << >>))
RawWords == Split(raw_text)
\* the first 12 words in consecutive groups of 3
Chunked ==
    LET n == Min(Len(RawWords), 12)
    IN  [k \in 1..((n + 2) \div 3) |->
            JoinWith(SubSeq(RawWords, 3 * k - 2, Min(3 * k, n)), <<" ">>)]

\* C19 (amended): when the line splitting leaves fewer than 2 usable
\* fragments and the raw text has at least 4 words, parse_answer_options
\* returns the first 12 words in consecutive groups of 3; with fewer than 4
\* words it returns the fragments it has; in every case it returns at most 4
\* entries.
C19_Fallback ==
    pc = "parsed" =>
        /\ (Len(Fragments) < 2 /\ Len(RawWords) >= 4) => answer_options = Chunked
        /\ (Len(Fragments) < 2 /\ Len(RawWords) < 4) => answer_options = Fragments
        /\ Len(answer_options) <= 4

\* no usable line, 13 words: the first 12 are returned in 4 groups of 3
C19_Witness ==
    /\ pc = "parsed"
    /\ Len(Fragments) < 2
    /\ Len(RawWords) = 13
    /\ Len(answer_options) = 4
    /\ answer_options = Chunked
    /\ Len(Split(answer_options[4])) = 3

\* C19 as stated: whenever the line splitting leaves fewer than 2 usable
\* fragments, parse_answer_options returns the first 12 words in consecutive
\* groups of 3; in every case it returns at most 4 entries.
C19_AsStated ==
    pc = "parsed" =>
        /\ Len(Fragments) < 2 => answer_options = Chunked
        /\ Len(answer_options) <= 4

(***************************************************************************)
(* The order of the stages of a cycle (Spec).                              *)
(***************************************************************************)
\* C20 as stated: the stages of a cycle run in the order capture, recognize,
\* gather evidence, score, localize, decide, act: the button localization
\* never runs before the scoring has completed, and a cycle that is
\* deduplicated or fails earlier runs no later stage, no localization on a
\* duplicate question in particular.
C20_AsStated ==
    \A i \in DOMAIN stages :
        stages[i] \in {"find_answer_buttons", "find_color_coded_answers"} =>
            \E j \in 1..(i - 1) : stages[j] = "find_best_answer"


(***************************************************************************)
(* The agent's fields across cycles (Spec).                                *)
(***************************************************************************)
\* a step that changes last_question or question_count
Bookkeeping ==
    last_question' # last_question \/ question_count' # question_count

\* C21: no step of a cycle changes auto_click, min_confidence or
\* scan_interval; last_question and question_count change only in the step of
\* process_question that follows the recognition of a non-empty question
\* different from last_question together with non-empty options, which sets
\* last_question to that question and adds one to question_count; a cycle that
\* ends at the emptiness check, in an exception of capture or recognition, or
\* at the comparison with last_question leaves all five fields as they were.
C21_Frame ==
    [][ /\ config' = config
        /\ Bookkeeping =>
              /\ pc = "check"
              /\ question # T_empty
              /\ question # last_question
              /\ answer_options # << >>
              /\ last_question' = question
              /\ question_count' = question_count + 1
        /\ (pc' = "sleep" /\ pc \in {"capture", "extract_question",
                                      "extract_answers", "check"})
              => ~Bookkeeping ]_vars

\* a cycle after the first question, which recognized another question but no
\* options, ended with the fields as the first question left them
C21_Witness ==
    /\ CycleEnded
    /\ result = "failure"
    /\ ~faulted
    /\ question # T_empty
    /\ answer_options = << >>
    /\ question_count = 1
    /\ last_question # T_empty
    /\ last_question # question

(***************************************************************************)
(* Properties of the snippet (SnippetSpec).                                *)
(***************************************************************************)
\* C22 as stated: the snippet stored for a fetched page has at most 500
\* characters, whatever the page's text.
C22_AsStated ==
    \A i \in DOMAIN pass_results : Len(pass_results[i].snippet) <= snippet_limit

(***************************************************************************)
(* The localization of the buttons within a cycle (Spec).                  *)
(***************************************************************************)
\* what the quadrant strategy returns for the cycle's image and options
Quadrants == find_answer_buttons(answers_img, answer_options)

\* C23: in a cycle the color strategy is called only if the quadrant strategy
\* returned no position, and only after it; when the quadrant strategy
\* returned positions, they are the cycle's button_positions and a click goes
\* to one of them, moved by the offset of the answers area.
C23_FallbackChain ==
    /\ Called("find_color_coded_answers") =>
          /\ Called("find_answer_buttons")
          /\ Quadrants = << >>
    /\ (Called("find_answer_buttons") /\ Quadrants # << >>) =>
          /\ button_positions = Quadrants
          /\ click # NoClick =>
                \E i \in DOMAIN Quadrants :
                   click = <<Quadrants[i][1] + answers_area_offset[1],
                             Quadrants[i][2] + answers_area_offset[2]>>

\* a click went to a position of the quadrant strategy, the color strategy
\* not called
C23_Witness ==
    /\ CycleEnded
    /\ Called("find_answer_buttons")
    /\ ~Called("find_color_coded_answers")
    /\ Len(button_positions) = 2
    /\ click = <<Quadrants[2][1], Quadrants[2][2] + answers_area_offset[2]>>

(***************************************************************************)
(* The button a click goes to (Spec).                                      *)
(***************************************************************************)
\* C24 as stated: whenever a click is dispatched, it goes to the button
\* position at the display index of the option find_best_answer returned,
\* whatever the option list, also when an option's text is contained, case
\* ignored, in the text of an earlier option.
C24_AsStated ==
    click # NoClick =>
        \E i \in DOMAIN answer_options :
           /\ answer_options[i] = best_answer
           /\ i <= Len(button_positions)
           /\ click = ClickPosition(i - 1, button_positions, answers_area_offset)

(***************************************************************************)
(* The confidence find_best_answer returns, at the gate (Spec).            *)
(***************************************************************************)
\* process_question has find_best_answer's answer and confidence
Answered == pc \in {"decide", "sleep"} /\ best_answer # T_empty

\* find_best_answer returned from its fallback after an exception
FellBack == scores = NoScores

\* some option has a non-zero score before the normalization
NonZeroRaw ==
    \E k \in Range(answer_options) :
       FracGT(raw_scores(search_results, answer_options)[k], Zero)

\* the values of --confidence above 0.1 and up to 1.0
AboveLow == FracGT(min_confidence, LowConfidence) /\ FracGE(One, min_confidence)

\* C25: the confidence find_best_answer returns to process_question is 0.0,
\* 0.1 or 1.0: 0.1 exactly on the exception fallback, otherwise 1.0 when some
\* option has a non-zero raw score and 0.0 when none has; so for
\* min_confidence above 0.1 and up to 1.0 the comparison of the gate passes
\* exactly when some option has a non-zero raw score.
C25_ThreeValues ==
    Answered =>
        /\ confidence \in {Zero, LowConfidence, One}
        /\ confidence = LowConfidence <=> FellBack
        /\ confidence = One <=> (~FellBack /\ NonZeroRaw)
        /\ confidence = Zero <=> (~FellBack /\ ~NonZeroRaw)
        /\ AboveLow =>
              /\ FracGE(confidence, min_confidence) <=> (~FellBack /\ NonZeroRaw)
              /\ (CycleEnded /\ auto_click /\ button_positions # << >>) =>
                    (Called("click_best_answer") <=> (~FellBack /\ NonZeroRaw))

\* at the default threshold a click followed a confidence of 1.0 that came
\* from raw scores of which one was smaller than the largest and not zero
C25_Witness ==
    /\ CycleEnded
    /\ Called("click_best_answer")
    /\ click # NoClick
    /\ min_confidence = Default_min_confidence
    /\ confidence = One
    /\ \E k \in DOMAIN scores : FracGT(scores[k], Zero) /\ FracGT(One, scores[k])

(***************************************************************************)
(* An exception after the question was recorded (Spec).                    *)
(***************************************************************************)
\* a step in which an exception of the search or of the action stage ends the
\* cycle
FaultAfterRecognition ==
    /\ pc \in {"search", "decide"}
    /\ pc' = "sleep"
    /\ faulted'

\* the cycle reports failure with the question already recorded and counted
RecordedAndFailed ==
    /\ result' = "failure"
    /\ question # T_empty
    /\ last_question = question
    /\ last_question' = question
    /\ question_count >= 1
    /\ question_count' = question_count

\* C26 (amended): when an exception ends a cycle during the search or the
\* action stage, the cycle reports failure with last_question already set to
\* its question and question_count already incremented; and every cycle that
\* recognizes a question equal to last_question together with non-empty
\* options is a no-op success, without search or click, so that question is
\* not searched or clicked as long as it is the one shown.
C26_RecordedBeforeFault ==
    [][ /\ FaultAfterRecognition => RecordedAndFailed
        /\ (SameQuestionStep /\ answer_options # << >>) => NoOpSuccess ]_vars

\* the search of the first question ended in an exception: failure reported,
\* the question recorded and counted, nothing chosen or clicked
C26_Witness ==
    /\ CycleEnded
    /\ faulted
    /\ result = "failure"
    /\ stages[Len(stages)] = "find_best_answer"
    /\ best_answer = T_empty
    /\ question # T_empty
    /\ last_question = question
    /\ question_count = 1
    /\ clicks = 0

\* C26 as stated: after such an exception every following cycle that shows
\* the same question is a no-op success.
C26_AsStated ==
    [][ /\ FaultAfterRecognition => RecordedAndFailed
        /\ SameQuestionStep => NoOpSuccess ]_vars

(***************************************************************************)
(* The clicks of a run (Spec).                                             *)
(***************************************************************************)
\* C27: a step dispatches at most one click, a cycle has at most one such
\* step (it is the last statement but the return of process_question, in a
\* cycle that had not clicked before), and the clicks dispatched since the
\* start never exceed question_count: a click is dispatched only in a cycle
\* that incremented the counter.
C27_ClicksBounded ==
    /\ clicks <= question_count
    /\ click # NoClick =>
          /\ pc \in {"sleep", "done"}
          /\ clicks >= 1
          /\ question = last_question
          /\ stages[Len(stages)] = "click_best_answer"
          /\ Cardinality({ i \in DOMAIN stages : stages[i] = "click_best_answer" }) = 1
          /\ Cardinality({ i \in DOMAIN stages : stages[i] = "find_best_answer" }) = 1
    /\ clicks = question_count => (InCycle => ~Called("find_best_answer"))

\* every one of three questions was clicked
C27_Witness ==
    /\ CycleEnded
    /\ question_count = 3
    /\ clicks = 3
    /\ click # NoClick

(***************************************************************************)
(* The localization for the options the recognizer parses (LocateSpec).    *)
(***************************************************************************)
\* C28: in a cycle that reaches the localization the quadrant strategy
\* returns as many positions as there are options, between 1 and 4; the color
\* strategy is not called, button_positions is not empty at the gate, and the
\* index click_best_answer finds for the answer chosen has a position.
C28_OnePositionPerOption ==
    Called("find_answer_buttons") =>
        /\ Len(answer_options) \in 1..4
        /\ Len(button_positions) = Len(answer_options)
        /\ button_positions = find_answer_buttons(answers_img, answer_options)
        /\ ~Called("find_color_coded_answers")
        /\ best_answer # T_empty =>
              LET answer_index == AnswerIndex(best_answer, answer_options)
              IN  /\ answer_index >= 0
                  /\ CanClick(answer_index, button_positions)

\* four options were parsed, four positions found, and the fourth clicked
C28_Witness ==
    /\ CycleEnded
    /\ Len(answer_options) = 4
    /\ Len(button_positions) = 4
    /\ best_answer = answer_options[4]
    /\ click = ClickPosition(3, button_positions, answers_area_offset)

(***************************************************************************)
(* The enumerators parse_answer_options strips (ParseSpec).                *)
(***************************************************************************)
\* the stripped line begins with A) .. D) or with 1. .. 4.
HasEnumerator(line) ==
    /\ Len(line) >= 2
    /\ \/ line[1] \in {"A", "B", "C", "D"} /\ line[2] = ")"
       \/ line[1] \in {"1", "2", "3", "4"} /\ line[2] = "."

\* the lines of the raw text, stripped
StrippedLines ==
    LET lines == SplitLines(raw_text, 1, << >>)
    IN  [i \in DOMAIN lines |-> Strip(lines[i])]

\* C29 as stated: the stripping changes only lines that begin with an
\* enumerator: where the options are the lines of the raw text, a line of
\* more than 2 characters without an enumerator is among them with its text
\* unchanged, also when it begins with a letter A-D or a digit 1-4.
C29_AsStated ==
    (pc = "parsed" /\ Len(Fragments) >= 2) =>
        \A i \in DOMAIN StrippedLines :
           (Len(StrippedLines[i]) > 2 /\ ~HasEnumerator(StrippedLines[i])) =>
               \E k \in DOMAIN Fragments : Fragments[k] = StrippedLines[i]

(***************************************************************************)
(* A question shown again after another one (Spec).                        *)
(***************************************************************************)
\* the cycle recognized, with options, a question other than last_question
OtherQuestion ==
    /\ question # T_empty
    /\ answer_options # << >>
    /\ question # last_question

\* process_question executes its statement at the place given
StepFrom(place) == pc = place /\ pc' \notin {place, "done"}

\* C30: the comparison is with the question processed last only: a cycle that
\* recognized, with options, a question other than last_question processes it
\* as a new one, however many questions were processed before and whichever
\* they were: question_count is incremented and the search is the next
\* stage; the search that returns is followed by the gate. So of the
\* questions A, B, A in three cycles the third is processed anew.
C30_OnlyLastRemembered ==
    [][ /\ (StepFrom("check") /\ OtherQuestion) =>
              /\ question_count' = question_count + 1
              /\ last_question' = question
              /\ pc' = "search"
        /\ (StepFrom("search") /\ ~faulted') =>
              /\ Called("find_best_answer")'
              /\ pc' = "decide"
        /\ (StepFrom("decide") /\ auto_click /\ FracGE(confidence, min_confidence)
               /\ button_positions # << >>) =>
              Called("click_best_answer")' ]_vars

\* the third new question of a run that knows two is the first one again: it
\* was counted, searched and taken to the action stage
C30_Witness ==
    /\ CycleEnded
    /\ question_count = 3
    /\ question = T_Q1
    /\ last_question = T_Q1
    /\ Called("find_best_answer")
    /\ Called("click_best_answer")
    /\ result = "success"

====
